---- MODULE Spec2Model ----
(***************************************************************************)
(* State-machine model of the App component of ios-fastlane-desktop        *)
(* (src/src/App.tsx) and of the backend bindings it calls                  *)
(* (src/src/lib/defaultConfig.ts).                                         *)
(*                                                                         *)
(* Strings on which the code computes (toLowerCase, includes, startsWith,  *)
(* trim, regular expression tests) are sequences of one-character strings. *)
(* Strings the code only stores, compares and tests for truthiness are     *)
(* TLA+ strings.  An optional value is undefined (<<>>) or <<value>>.      *)
(***************************************************************************)
EXTENDS Integers, Sequences, FiniteSets, TLC

VARIABLES
  config,                 \* useState<ProjectConfig>(defaultConfig)
  scanResult,             \* useState<ScanResult | null>(null)
  log,                    \* useState("Ready. ...")
  busy,                   \* useState(false)
  hideThirdPartySchemes,  \* useState(true)
  mainScheme,             \* useState("")
  identityDiff,           \* useState<string[]>([])
  doctorReport,           \* useState<DoctorReport | null>(null)
  pending,                \* backend calls (promises) that have not settled
  nOps,                   \* number of backend calls started so far
  nEdits,                 \* number of form edits made so far
  settled,                \* how the backend call that settled last ended
  availableSchemes,       \* useMemo(..., [hideThirdPartySchemes, scanResult])
  call                    \* last application of a classifier function

vars == <<config, scanResult, log, busy, hideThirdPartySchemes, mainScheme,
          identityDiff, doctorReport, pending, nOps, nEdits, settled,
          availableSchemes, call>>

appVars == <<config, scanResult, log, busy, hideThirdPartySchemes, mainScheme,
             identityDiff, doctorReport, pending, nOps, nEdits, settled,
             availableSchemes>>

-----------------------------------------------------------------------------
(* Bounds *)

MaxLen == 3      \* longest scheme list given to the classifier functions
MaxOps == 2      \* backend calls started in one behaviour
MaxEdits == 1    \* form edits made in one behaviour

-----------------------------------------------------------------------------
(* JavaScript values *)

undefined == <<>>

Some(v) == <<v>>

\* a ?? b
Nullish(a, b) == IF a = undefined THEN b ELSE a[1]

Min(S) == CHOOSE x \in S : \A y \in S : x <= y

-----------------------------------------------------------------------------
(* Strings as character sequences *)

upperCase == <<"A", "B", "C", "D", "E", "F", "G", "H", "I", "J", "K", "L", "M",
               "N", "O", "P", "Q", "R", "S", "T", "U", "V", "W", "X", "Y", "Z">>

lowerCase == <<"a", "b", "c", "d", "e", "f", "g", "h", "i", "j", "k", "l", "m",
               "n", "o", "p", "q", "r", "s", "t", "u", "v", "w", "x", "y", "z">>

\* the lower-case letter of each upper-case letter
lowerOf == [c \in {upperCase[i] : i \in 1..26} |->
              lowerCase[CHOOSE i \in 1..26 : upperCase[i] = c]]

toLowerChar(c) == IF c \in DOMAIN lowerOf THEN lowerOf[c] ELSE c

\* String.prototype.toLowerCase
RECURSIVE toLowerCase(_)
toLowerCase(s) ==
  IF s = <<>> THEN <<>> ELSE <<toLowerChar(Head(s))>> \o toLowerCase(Tail(s))

\* String.prototype.startsWith
startsWith(s, t) == Len(t) <= Len(s) /\ SubSeq(s, 1, Len(t)) = t

\* String.prototype.includes
includes(s, t) ==
  \E i \in 0..(Len(s) - Len(t)) : SubSeq(s, i + 1, i + Len(t)) = t

isSpace(c) == c = " "

\* String.prototype.trim
trim(s) ==
  LET keep == {i \in 1..Len(s) : ~isSpace(s[i])}
  IN  IF keep = {} THEN <<>>
      ELSE SubSeq(s, Min(keep), CHOOSE x \in keep : \A y \in keep : y <= x)

\* Array.prototype.find: the first element passing the test, else undefined
find(arr, test(_)) ==
  LET hits == {i \in 1..Len(arr) : test(arr[i])}
  IN  IF hits = {} THEN undefined ELSE Some(arr[Min(hits)])

\* Array.prototype.filter: the elements passing the test, in order
filter(arr, test(_)) ==
  LET kept[i \in 0..Len(arr)] ==
        IF i = 0 THEN <<>>
        ELSE IF test(arr[i]) THEN Append(kept[i - 1], arr[i])
        ELSE kept[i - 1]
  IN  kept[Len(arr)]

-----------------------------------------------------------------------------
(* Scheme classifier: App.tsx lines 64-110 *)

kwDev == <<"d", "e", "v">>
kwDebug == <<"d", "e", "b", "u", "g">>
kwStaging == <<"s", "t", "a", "g", "i", "n", "g">>
kwProd == <<"p", "r", "o", "d">>
kwRelease == <<"r", "e", "l", "e", "a", "s", "e">>
kwAppstore == <<"a", "p", "p", "s", "t", "o", "r", "e">>
kwPods == <<"p", "o", "d", "s", "-">>
kwPrivacy == <<"p", "r", "i", "v", "a", "c", "y">>

\* mutant: the i flag is missing
devPattern_CaseSensitive(s) ==
  \E k \in {kwDev, kwDebug, kwStaging} : includes(s, k)

\* /dev|debug|staging/i.test(s)
devPattern(s) ==
  \E k \in {kwDev, kwDebug, kwStaging} : includes(toLowerCase(s), k)

\* /prod|release|appstore/i.test(s)
disPattern(s) ==
  \E k \in {kwProd, kwRelease, kwAppstore} : includes(toLowerCase(s), k)

\* mutant: the final `?? schemes[0]` of dis is missing
pickSuggestedSchemes_NoLastFallback(schemes) ==
  IF Len(schemes) = 0 THEN [dev |-> <<>>, dis |-> <<>>]
  ELSE
    LET dev == Nullish(find(schemes, devPattern), schemes[1])
        differs(s) == s # dev
        dis == Nullish(find(schemes, disPattern),
                       Nullish(find(schemes, differs), <<>>))
    IN  [dev |-> dev, dis |-> dis]

pickSuggestedSchemes(schemes) ==
  IF Len(schemes) = 0 THEN [dev |-> <<>>, dis |-> <<>>]
  ELSE
    LET dev == Nullish(find(schemes, devPattern), schemes[1])
        differs(s) == s # dev
        dis == Nullish(find(schemes, disPattern),
                       Nullish(find(schemes, differs), schemes[1]))
    IN  [dev |-> dev, dis |-> dis]

thirdPartyKeywords == <<
  <<"k", "i", "n", "g", "f", "i", "s", "h", "e", "r">>,
  <<"s", "n", "a", "p", "k", "i", "t">>,
  <<"s", "w", "i", "f", "t", "y", "j", "s", "o", "n">>,
  <<"a", "d", "j", "u", "s", "t">>,
  <<"g", "r", "d", "b">>,
  <<"m", "b", "p", "r", "o", "g", "r", "e", "s", "s", "h", "u", "d">>,
  <<"m", "j", "r", "e", "f", "r", "e", "s", "h">>,
  <<"t", "h", "i", "n", "k", "i", "n", "g">>,
  <<"j", "x", "p", "a", "g", "i", "n", "g">>,
  <<"j", "x", "s", "e", "g", "m", "e", "n", "t", "e", "d">>,
  <<"j", "x", "p", "h", "o", "t", "o">> >>

\* mutant: the project-name test runs before the denylist
isThirdPartyScheme_ProjectFirst(scheme, projectName) ==
  LET name == toLowerCase(scheme)
      project == toLowerCase(Nullish(projectName, <<>>))
  IN  IF project # <<>> /\ includes(name, project) THEN FALSE
      ELSE IF startsWith(name, kwPods) THEN TRUE
      ELSE IF includes(name, kwPrivacy) THEN TRUE
      ELSE \E i \in 1..Len(thirdPartyKeywords) :
             includes(name, thirdPartyKeywords[i])

\* mutant: the project-name test returns true
isThirdPartyScheme_ProjectIsThirdParty(scheme, projectName) ==
  LET name == toLowerCase(scheme)
      project == toLowerCase(Nullish(projectName, <<>>))
  IN  IF startsWith(name, kwPods) THEN TRUE
      ELSE IF includes(name, kwPrivacy) THEN TRUE
      ELSE IF \E i \in 1..Len(thirdPartyKeywords) :
                 includes(name, thirdPartyKeywords[i]) THEN TRUE
      ELSE IF project # <<>> /\ includes(name, project) THEN TRUE
      ELSE FALSE

\* projectName is optional: undefined or Some(name)
isThirdPartyScheme(scheme, projectName) ==
  LET name == toLowerCase(scheme)
      project == toLowerCase(Nullish(projectName, <<>>))
  IN  IF startsWith(name, kwPods) THEN TRUE
      ELSE IF includes(name, kwPrivacy) THEN TRUE
      ELSE IF \E i \in 1..Len(thirdPartyKeywords) :
                 includes(name, thirdPartyKeywords[i]) THEN TRUE
      ELSE IF project # <<>> /\ includes(name, project) THEN FALSE
      ELSE FALSE

\* mutant: the substring match is tried before the exact match
suggestMainScheme_ContainsFirst(schemes, projectName) ==
  LET pname == Nullish(projectName, <<>>)
      isExact(s) == toLowerCase(s) = toLowerCase(pname)
      isContained(s) == pname # <<>> /\ includes(toLowerCase(s), toLowerCase(pname))
      exact == find(schemes, isExact)
      contains == find(schemes, isContained)
  IN  IF contains # undefined /\ contains[1] # <<>> THEN contains[1]
      ELSE IF exact # undefined /\ exact[1] # <<>> THEN exact[1]
      ELSE IF Len(schemes) > 0 THEN schemes[1]
      ELSE <<>>

suggestMainScheme(schemes, projectName) ==
  LET pname == Nullish(projectName, <<>>)
      isExact(s) == toLowerCase(s) = toLowerCase(pname)
      isContained(s) == pname # <<>> /\ includes(toLowerCase(s), toLowerCase(pname))
      exact == find(schemes, isExact)
      contains == find(schemes, isContained)
  IN  IF exact # undefined /\ exact[1] # <<>> THEN exact[1]
      ELSE IF contains # undefined /\ contains[1] # <<>> THEN contains[1]
      ELSE IF Len(schemes) > 0 THEN schemes[1]
      ELSE <<>>

\* mutant: the filtered list is returned even when it is empty
availableSchemesOf_NoFallback(result, hide) ==
  IF result = undefined THEN <<>>
  ELSE IF Len(result[1].schemes) = 0 THEN <<>>
  ELSE IF ~hide THEN result[1].schemes
  ELSE
    LET keepScheme(s) == ~isThirdPartyScheme(s, Some(result[1].projectName))
    IN  filter(result[1].schemes, keepScheme)

\* the value useMemo computes from the state it depends on
availableSchemesOf(result, hide) ==
  IF result = undefined THEN <<>>
  ELSE IF Len(result[1].schemes) = 0 THEN <<>>
  ELSE IF ~hide THEN result[1].schemes
  ELSE
    LET keepScheme(s) == ~isThirdPartyScheme(s, Some(result[1].projectName))
        filtered == filter(result[1].schemes, keepScheme)
    IN  IF Len(filtered) > 0 THEN filtered ELSE result[1].schemes

-----------------------------------------------------------------------------
(* Values typed into the form and values returned by the backend *)

nMyApp == <<"M", "y", "A", "p", "p">>
nMyAppDev == <<"M", "y", "A", "p", "p", "-", "D", "e", "v">>
nMyAppDEBUG == <<"M", "y", "A", "p", "p", "-", "D", "E", "B", "U", "G">>
nMyAppRelease == <<"M", "y", "A", "p", "p", "-", "R", "e", "l", "e", "a", "s", "e">>
nProd == <<"P", "r", "o", "d">>
nPodsMyApp == <<"P", "o", "d", "s", "-", "M", "y", "A", "p", "p">>
nKingfisher == <<"K", "i", "n", "g", "f", "i", "s", "h", "e", "r">>
nWidget == <<"W", "i", "d", "g", "e", "t">>
nDevProd == <<"D", "e", "v", "P", "r", "o", "d">>
nMYAPP == <<"M", "Y", "A", "P", "P">>
nSnapKit == <<"S", "n", "a", "p", "K", "i", "t">>
nSwiftyJSON == <<"S", "w", "i", "f", "t", "y", "J", "S", "O", "N">>
nAdjust == <<"A", "d", "j", "u", "s", "t">>
nGRDB == <<"G", "R", "D", "B">>
nMBProgressHUD == <<"M", "B", "P", "r", "o", "g", "r", "e", "s", "s", "H", "U", "D">>
nMJRefresh == <<"M", "J", "R", "e", "f", "r", "e", "s", "h">>
nThinkingSDK == <<"T", "h", "i", "n", "k", "i", "n", "g", "S", "D", "K">>
nJXPagingView == <<"J", "X", "P", "a", "g", "i", "n", "g", "V", "i", "e", "w">>
nJXSegmentedView == <<"J", "X", "S", "e", "g", "m", "e", "n", "t", "e", "d", "V", "i", "e", "w">>
nJXPhotoBrowser == <<"J", "X", "P", "h", "o", "t", "o", "B", "r", "o", "w", "s", "e", "r">>
nPrivacyInfo == <<"M", "y", "A", "p", "p", "_", "P", "R", "I", "V", "A", "C", "Y">>
nPODSx == <<"P", "O", "D", "S", "-", "x">>
nMyPodsx == <<"M", "y", "P", "o", "d", "s", "-", "x">>
nPods == <<"P", "o", "d", "s">>
nAdjus == <<"A", "d", "j", "u", "s">>
nStagingApp == <<"S", "t", "a", "g", "i", "n", "g", "A", "p", "p">>
nAppStore == <<"A", "p", "p", "S", "t", "o", "r", "e">>
nApp == <<"A", "p", "p">>

pEmpty == <<>>
pBlank == <<" ">>
pA == <<"/", "a">>
pB == <<"/", "b">>

\* scheme names the classifier functions are applied to in lists
SchemeNames ==
  {nMyApp, nMyAppDev, nMyAppDEBUG, nMyAppRelease, nProd, nPodsMyApp,
   nKingfisher, nWidget, nDevProd, nMYAPP, nStagingApp, nAppStore}

\* scheme names isThirdPartyScheme is applied to
ClassifierNames ==
  SchemeNames \cup
  {nSnapKit, nSwiftyJSON, nAdjust, nGRDB, nMBProgressHUD, nMJRefresh,
   nThinkingSDK, nJXPagingView, nJXSegmentedView, nJXPhotoBrowser,
   nPrivacyInfo, nPODSx, nMyPodsx, nPods, nAdjus}

\* the optional projectName argument
ProjectNames ==
  {undefined, Some(<<>>), Some(nMyApp), Some(nApp), Some(nKingfisher), Some(nWidget)}

SchemeLists == UNION {[1..n -> SchemeNames] : n \in 0..MaxLen}

Errors == {"NotFoundError: no project"}

ScanResults ==
  { [projectName |-> nMyApp, workspace |-> undefined,
     xcodeproj |-> Some("MyApp.xcodeproj"),
     schemes |-> <<nMyApp, nPodsMyApp>>,
     bundleIdDev |-> Some("com.my.app"), bundleIdDis |-> Some("com.my.app"),
     teamId |-> Some("ABCD123456")],
    [projectName |-> nMyApp, workspace |-> Some("MyApp.xcworkspace"),
     xcodeproj |-> Some("MyApp.xcodeproj"),
     schemes |-> <<nKingfisher, nMyAppDev, nMyAppRelease, nMyApp>>,
     bundleIdDev |-> Some("com.my.app"), bundleIdDis |-> Some("com.my.app"),
     teamId |-> undefined],
    [projectName |-> nKingfisher, workspace |-> undefined,
     xcodeproj |-> Some("Kingfisher.xcodeproj"),
     schemes |-> <<nKingfisher, nPodsMyApp>>,
     bundleIdDev |-> undefined, bundleIdDis |-> undefined,
     teamId |-> undefined],
    [projectName |-> nWidget, workspace |-> undefined, xcodeproj |-> undefined,
     schemes |-> <<>>,
     bundleIdDev |-> undefined, bundleIdDis |-> undefined,
     teamId |-> undefined] }

IdentityResults ==
  { [bundleIdDev |-> Some("com.my.app.dev"), bundleIdDis |-> Some("com.my.app"),
     teamId |-> Some("WXYZ987654")],
    [bundleIdDev |-> Some("com.my.app"), bundleIdDis |-> undefined,
     teamId |-> undefined],
    [bundleIdDev |-> undefined, bundleIdDis |-> Some("com.my.app"),
     teamId |-> Some("")] }

LaneRunResults ==
  { [status |-> "success", exitCode |-> 0, output |-> "fastlane finished"],
    [status |-> "failed", exitCode |-> 2,
     output |-> "Build failed: code signing error"] }

DoctorReports ==
  { [checks |-> << [name |-> "ruby", status |-> "pass"],
                   [name |-> "bundler", status |-> "warn"],
                   [name |-> "fastlane", status |-> "fail"] >>] }

BrowseResults == {undefined, Some(pA)}

-----------------------------------------------------------------------------
(* defaultConfig.ts and the component's state *)

\* mutant: the branch default is left out
defaultConfig_BlankBranch ==
  [ projectPath |-> <<>>,
    workspace |-> "",
    xcodeproj |-> "",
    schemeDev |-> <<>>,
    schemeDis |-> <<>>,
    bundleIdDev |-> "",
    bundleIdDis |-> "",
    teamId |-> "",
    signingStyle |-> "automatic",
    matchGitUrl |-> "",
    matchGitBranch |-> "",
    pgyerApiKey |-> "",
    appStoreConnectApiKeyPath |-> "",
    enableQualityGate |-> TRUE,
    enableTests |-> TRUE,
    enableSwiftlint |-> FALSE,
    enableSnapshot |-> FALSE,
    metadataPath |-> "fastlane/metadata" ]

defaultConfig ==
  [ projectPath |-> <<>>,
    workspace |-> "",
    xcodeproj |-> "",
    schemeDev |-> <<>>,
    schemeDis |-> <<>>,
    bundleIdDev |-> "",
    bundleIdDis |-> "",
    teamId |-> "",
    signingStyle |-> "automatic",
    matchGitUrl |-> "",
    matchGitBranch |-> "main",
    pgyerApiKey |-> "",
    appStoreConnectApiKeyPath |-> "",
    enableQualityGate |-> TRUE,
    enableTests |-> TRUE,
    enableSwiftlint |-> FALSE,
    enableSnapshot |-> FALSE,
    metadataPath |-> "fastlane/metadata" ]

\* profiles the profile store can hand back
Profiles ==
  { [defaultConfig EXCEPT !.projectPath = pA, !.schemeDev = nMyAppDev,
        !.schemeDis = nMyApp, !.teamId = "ABCD123456",
        !.signingStyle = "manual", !.enableSwiftlint = TRUE] }

laneButtons == <<
  "validate_config",
  "dev",
  "dis",
  "staging",
  "prod",
  "release_testflight",
  "release_appstore",
  "snapshot_capture",
  "metadata_sync",
  "ci_setup",
  "ci_build_dev",
  "ci_build_dis" >>

\* one value of the log state: the literal text and the interpolated parts
Message(text, name, detail) ==
  [text |-> text, name |-> name, detail |-> detail,
   status |-> "", lane |-> "", nums |-> <<>>]

NoCall ==
  [fn |-> "none", schemes |-> <<>>, scheme |-> <<>>, projectName |-> undefined,
   pair |-> [dev |-> <<>>, dis |-> <<>>], str |-> <<>>, flag |-> FALSE]

Init ==
  /\ config = defaultConfig
  /\ scanResult = undefined
  /\ log = Message("Ready. Fill project path and click Scan.", <<>>, "")
  /\ busy = FALSE
  /\ hideThirdPartySchemes = TRUE
  /\ mainScheme = <<>>
  /\ identityDiff = <<>>
  /\ doctorReport = undefined
  /\ availableSchemes = availableSchemesOf(undefined, TRUE)
  /\ pending = {}
  /\ nOps = 0
  /\ nEdits = 0
  /\ settled = [op |-> "none", lane |-> "", outcome |-> "none", value |-> <<>>]
  /\ call = NoCall

\* setConfig((prev) => ({ ...prev, [key]: value }))
patch(prev, key, value) ==
  [k \in (DOMAIN prev) \cup {key} |-> IF k = key THEN value ELSE prev[k]]

\* a backend call in flight, with the config the handler closed over
Invocation(op, lane) == [op |-> op, lane |-> lane, snap |-> config]

\* setBusy(true) followed by the backend call
Start(op, lane) ==
  /\ nOps < MaxOps
  /\ busy' = TRUE
  /\ pending' = pending \cup {Invocation(op, lane)}
  /\ nOps' = nOps + 1

\* mutant: the finally block is missing
Settle_KeepsBusy(p, outcome, value) ==
  /\ busy' = busy
  /\ pending' = pending \ {p}
  /\ nOps' = nOps
  /\ settled' = [op |-> p.op, lane |-> p.lane, outcome |-> outcome, value |-> value]

\* the finally block of a handler whose call p has settled; outcome is
\* "resolved" with the value returned or "rejected" with the error thrown
Settle(p, outcome, value) ==
  /\ busy' = FALSE
  /\ pending' = pending \ {p}
  /\ nOps' = nOps
  /\ settled' = [op |-> p.op, lane |-> p.lane, outcome |-> outcome, value |-> value]

-----------------------------------------------------------------------------
(* Handlers.  A handler with a backend call is three actions: the click up  *)
(* to the await, the continuation after the promise resolves, and the catch *)
(* block after it rejects; the finally block runs in both.                  *)

\* truthiness of an optional string the code only stores
truthy(v) == v # undefined /\ v[1] # ""

\* x || "-"
orDash(s) == IF s = "" THEN "-" ELSE s

onScanEarlyReturn ==
  /\ log' = Message("Please input projectPath first.", <<>>, "")
  /\ UNCHANGED <<config, scanResult, busy, hideThirdPartySchemes, mainScheme,
                 identityDiff, doctorReport, pending, nOps, nEdits, call, settled, availableSchemes>>

onScan ==
  /\ ~busy
  /\ IF trim(config.projectPath) = <<>>
     THEN onScanEarlyReturn
     ELSE /\ Start("scan", "")
          /\ UNCHANGED <<config, scanResult, log, hideThirdPartySchemes,
                         mainScheme, identityDiff, doctorReport, nEdits, call, settled, availableSchemes>>

\* the seven patch calls of onScan, applied in order to the current config
scanPatches(prev, result) ==
  LET suggested == pickSuggestedSchemes(result.schemes)
      c1 == patch(prev, "workspace", Nullish(result.workspace, ""))
      c2 == patch(c1, "xcodeproj", Nullish(result.xcodeproj, ""))
      c3 == patch(c2, "schemeDev", suggested.dev)
      c4 == patch(c3, "schemeDis", suggested.dis)
      c5 == patch(c4, "bundleIdDev", Nullish(result.bundleIdDev, ""))
      c6 == patch(c5, "bundleIdDis", Nullish(result.bundleIdDis, ""))
  IN  patch(c6, "teamId", Nullish(result.teamId, ""))

onScanResolved(p, result) ==
  /\ scanResult' = Some(result)
  /\ availableSchemes' = availableSchemesOf(Some(result), hideThirdPartySchemes)
  /\ mainScheme' = suggestMainScheme(result.schemes, Some(result.projectName))
  /\ identityDiff' = <<>>
  /\ config' = scanPatches(config, result)
  /\ log' = Message("Scan complete for ", result.projectName, "")
  /\ Settle(p, "resolved", result)
  /\ UNCHANGED <<hideThirdPartySchemes, doctorReport, nEdits, call>>

\* mutant: the catch block also drops the previous scan
onScanRejected_ClearsScanResult(p, error) ==
  /\ log' = Message("Scan failed: ", <<>>, error)
  /\ scanResult' = undefined
  /\ availableSchemes' = availableSchemesOf(undefined, hideThirdPartySchemes)
  /\ mainScheme' = <<>>
  /\ Settle(p, "rejected", error)
  /\ UNCHANGED <<config, hideThirdPartySchemes, identityDiff, doctorReport,
                 nEdits, call>>

onScanRejected(p, error) ==
  /\ log' = Message("Scan failed: ", <<>>, error)
  /\ Settle(p, "rejected", error)
  /\ UNCHANGED <<config, scanResult, hideThirdPartySchemes, mainScheme,
                 identityDiff, doctorReport, nEdits, call, availableSchemes>>

ScanResolve ==
  \E p \in pending : p.op = "scan" /\ \E result \in ScanResults : onScanResolved(p, result)

ScanReject ==
  \E p \in pending : p.op = "scan" /\ \E error \in Errors : onScanRejected(p, error)

\* disabled={busy || !(availableSchemes.length || scanResult?.schemes.length)}
schemeButtonsEnabled ==
  /\ ~busy
  /\ \/ Len(availableSchemes) > 0
     \/ scanResult # undefined /\ Len(scanResult[1].schemes) > 0

onApplyIdentity ==
  /\ schemeButtonsEnabled
  /\ IF trim(config.projectPath) = <<>>
     THEN /\ log' = Message("projectPath is required to resolve identity.", <<>>, "")
          /\ UNCHANGED <<config, scanResult, busy, hideThirdPartySchemes, mainScheme,
                         identityDiff, doctorReport, pending, nOps, nEdits, call, settled, availableSchemes>>
     ELSE IF trim(config.schemeDev) = <<>> \/ trim(config.schemeDis) = <<>>
     THEN /\ log' = Message("Please select schemeDev and schemeDis first.", <<>>, "")
          /\ UNCHANGED <<config, scanResult, busy, hideThirdPartySchemes, mainScheme,
                         identityDiff, doctorReport, pending, nOps, nEdits, call, settled, availableSchemes>>
     ELSE /\ Start("identity", "")
          /\ UNCHANGED <<config, scanResult, log, hideThirdPartySchemes,
                         mainScheme, identityDiff, doctorReport, nEdits, call, settled, availableSchemes>>

identityPatches(prev, identity) ==
  LET c1 == patch(prev, "bundleIdDev", Nullish(identity.bundleIdDev, ""))
      c2 == patch(c1, "bundleIdDis", Nullish(identity.bundleIdDis, ""))
  IN  IF truthy(identity.teamId) THEN patch(c2, "teamId", identity.teamId[1]) ELSE c2

\* the diff lines, from the values the handler read when it was invoked
identityDiffLines(snap, identity) ==
  LET prevBundleDev == snap.bundleIdDev
      prevBundleDis == snap.bundleIdDis
      prevTeamId == snap.teamId
      l1 == IF Nullish(identity.bundleIdDev, "") # prevBundleDev
            THEN << <<"bundleIdDev", orDash(prevBundleDev),
                      orDash(Nullish(identity.bundleIdDev, ""))>> >>
            ELSE <<>>
      l2 == IF Nullish(identity.bundleIdDis, "") # prevBundleDis
            THEN << <<"bundleIdDis", orDash(prevBundleDis),
                      orDash(Nullish(identity.bundleIdDis, ""))>> >>
            ELSE <<>>
      l3 == IF Nullish(identity.teamId, prevTeamId) # prevTeamId
            THEN << <<"teamId", orDash(prevTeamId),
                      orDash(Nullish(identity.teamId, ""))>> >>
            ELSE <<>>
  IN  l1 \o l2 \o l3

onApplyIdentityResolved(p, identity) ==
  /\ config' = identityPatches(config, identity)
  /\ identityDiff' = identityDiffLines(p.snap, identity)
  /\ log' = Message("Identity applied from selected schemes.", <<>>, "")
  /\ Settle(p, "resolved", identity)
  /\ UNCHANGED <<scanResult, hideThirdPartySchemes, mainScheme, doctorReport,
                 nEdits, call, availableSchemes>>

onApplyIdentityRejected(p, error) ==
  /\ log' = Message("Resolve identity failed: ", <<>>, error)
  /\ Settle(p, "rejected", error)
  /\ UNCHANGED <<config, scanResult, hideThirdPartySchemes, mainScheme,
                 identityDiff, doctorReport, nEdits, call, availableSchemes>>

IdentityResolve ==
  \E p \in pending : p.op = "identity" /\
    \E identity \in IdentityResults : onApplyIdentityResolved(p, identity)

IdentityReject ==
  \E p \in pending : p.op = "identity" /\
    \E error \in Errors : onApplyIdentityRejected(p, error)

onLockMainScheme ==
  /\ schemeButtonsEnabled
  /\ IF mainScheme = <<>>
     THEN /\ log' = Message("No main scheme available to lock.", <<>>, "")
          /\ UNCHANGED config
     ELSE LET isDevCandidate(s) == s # mainScheme /\ devPattern(s)
              devCandidate == find(availableSchemes, isDevCandidate)
              c1 == patch(config, "schemeDis", mainScheme)
          IN  /\ config' = patch(c1, "schemeDev", Nullish(devCandidate, mainScheme))
              /\ log' = Message("Main scheme locked to ", mainScheme, "")
  /\ UNCHANGED <<scanResult, busy, hideThirdPartySchemes, mainScheme,
                 identityDiff, doctorReport, pending, nOps, nEdits, call, settled, availableSchemes>>

onBrowseProjectPath ==
  /\ ~busy
  /\ Start("browse", "")
  /\ UNCHANGED <<config, scanResult, log, hideThirdPartySchemes, mainScheme,
                 identityDiff, doctorReport, nEdits, call, settled, availableSchemes>>

onBrowseResolved(p, selectedPath) ==
  /\ IF selectedPath # undefined /\ selectedPath[1] # <<>>
     THEN /\ config' = patch(config, "projectPath", selectedPath[1])
          /\ log' = Message("Selected project path: ", selectedPath[1], "")
     ELSE /\ log' = Message("Project path selection canceled.", <<>>, "")
          /\ UNCHANGED config
  /\ Settle(p, "resolved", selectedPath)
  /\ UNCHANGED <<scanResult, hideThirdPartySchemes, mainScheme, identityDiff,
                 doctorReport, nEdits, call, availableSchemes>>

onBrowseRejected(p, error) ==
  /\ log' = Message("Open folder failed: ", <<>>, error)
  /\ Settle(p, "rejected", error)
  /\ UNCHANGED <<config, scanResult, hideThirdPartySchemes, mainScheme,
                 identityDiff, doctorReport, nEdits, call, availableSchemes>>

BrowseResolve ==
  \E p \in pending : p.op = "browse" /\
    \E selectedPath \in BrowseResults : onBrowseResolved(p, selectedPath)

BrowseReject ==
  \E p \in pending : p.op = "browse" /\
    \E error \in Errors : onBrowseRejected(p, error)

\* mutant: the Generate Files button is not disabled while busy
onGenerate_NotDisabled ==
  /\ Start("generate", "")
  /\ UNCHANGED <<config, scanResult, log, hideThirdPartySchemes, mainScheme,
                 identityDiff, doctorReport, nEdits, call, settled, availableSchemes>>

onGenerate ==
  /\ ~busy
  /\ Start("generate", "")
  /\ UNCHANGED <<config, scanResult, log, hideThirdPartySchemes, mainScheme,
                 identityDiff, doctorReport, nEdits, call, settled, availableSchemes>>

onGenerateResolved(p, output) ==
  /\ log' = Message(output, <<>>, "")
  /\ Settle(p, "resolved", output)
  /\ UNCHANGED <<config, scanResult, hideThirdPartySchemes, mainScheme,
                 identityDiff, doctorReport, nEdits, call, availableSchemes>>

onGenerateRejected(p, error) ==
  /\ log' = Message("Generate failed: ", <<>>, error)
  /\ Settle(p, "rejected", error)
  /\ UNCHANGED <<config, scanResult, hideThirdPartySchemes, mainScheme,
                 identityDiff, doctorReport, nEdits, call, availableSchemes>>

GenerateResolve ==
  \E p \in pending : p.op = "generate" /\ onGenerateResolved(p, "Generated fastlane files.")

GenerateReject ==
  \E p \in pending : p.op = "generate" /\
    \E error \in Errors : onGenerateRejected(p, error)

onSaveProfile ==
  /\ ~busy
  /\ IF trim(config.projectPath) = <<>>
     THEN /\ log' = Message("projectPath is required to save profile.", <<>>, "")
          /\ UNCHANGED <<config, scanResult, busy, hideThirdPartySchemes, mainScheme,
                         identityDiff, doctorReport, pending, nOps, nEdits, call, settled, availableSchemes>>
     ELSE /\ Start("save", "")
          /\ UNCHANGED <<config, scanResult, log, hideThirdPartySchemes,
                         mainScheme, identityDiff, doctorReport, nEdits, call, settled, availableSchemes>>

onSaveProfileResolved(p, output) ==
  /\ log' = Message(output, <<>>, "")
  /\ Settle(p, "resolved", output)
  /\ UNCHANGED <<config, scanResult, hideThirdPartySchemes, mainScheme,
                 identityDiff, doctorReport, nEdits, call, availableSchemes>>

onSaveProfileRejected(p, error) ==
  /\ log' = Message("Save profile failed: ", <<>>, error)
  /\ Settle(p, "rejected", error)
  /\ UNCHANGED <<config, scanResult, hideThirdPartySchemes, mainScheme,
                 identityDiff, doctorReport, nEdits, call, availableSchemes>>

SaveResolve ==
  \E p \in pending : p.op = "save" /\ onSaveProfileResolved(p, "Profile saved.")

SaveReject ==
  \E p \in pending : p.op = "save" /\
    \E error \in Errors : onSaveProfileRejected(p, error)

onLoadProfile ==
  /\ ~busy
  /\ IF trim(config.projectPath) = <<>>
     THEN /\ log' = Message("projectPath is required to load profile.", <<>>, "")
          /\ UNCHANGED <<config, scanResult, busy, hideThirdPartySchemes, mainScheme,
                         identityDiff, doctorReport, pending, nOps, nEdits, call, settled, availableSchemes>>
     ELSE /\ Start("load", "")
          /\ UNCHANGED <<config, scanResult, log, hideThirdPartySchemes,
                         mainScheme, identityDiff, doctorReport, nEdits, call, settled, availableSchemes>>

onLoadProfileResolved(p, loaded) ==
  /\ config' = loaded
  /\ log' = Message("Profile loaded.", <<>>, "")
  /\ Settle(p, "resolved", loaded)
  /\ UNCHANGED <<scanResult, hideThirdPartySchemes, mainScheme, identityDiff,
                 doctorReport, nEdits, call, availableSchemes>>

onLoadProfileRejected(p, error) ==
  /\ log' = Message("Load profile failed: ", <<>>, error)
  /\ Settle(p, "rejected", error)
  /\ UNCHANGED <<config, scanResult, hideThirdPartySchemes, mainScheme,
                 identityDiff, doctorReport, nEdits, call, availableSchemes>>

LoadResolve ==
  \E p \in pending : p.op = "load" /\
    \E loaded \in Profiles : onLoadProfileResolved(p, loaded)

LoadReject ==
  \E p \in pending : p.op = "load" /\
    \E error \in Errors : onLoadProfileRejected(p, error)

onRunLane(lane) ==
  /\ ~busy
  /\ IF trim(config.projectPath) = <<>>
     THEN /\ log' = Message("projectPath is required to run lane.", <<>>, "")
          /\ UNCHANGED <<config, scanResult, busy, hideThirdPartySchemes, mainScheme,
                         identityDiff, doctorReport, pending, nOps, nEdits, call, settled, availableSchemes>>
     ELSE /\ Start("lane", lane)
          /\ UNCHANGED <<config, scanResult, log, hideThirdPartySchemes,
                         mainScheme, identityDiff, doctorReport, nEdits, call, settled, availableSchemes>>

\* `[${result.status}] ${lane} (exit=${result.exitCode})\n\n${result.output}`
laneReport(lane, result) ==
  [text |-> "[status] lane (exit=code)", name |-> <<>>, detail |-> result.output,
   status |-> result.status, lane |-> lane, nums |-> <<result.exitCode>>]

\* mutant: a result with status failed is reported like a rejection
onRunLaneResolved_FailedAsError(p, result) ==
  /\ log' = IF result.status = "failed"
            THEN Message("Lane run failed: ", <<>>, result.output)
            ELSE laneReport(p.lane, result)
  /\ Settle(p, "resolved", result)
  /\ UNCHANGED <<config, scanResult, hideThirdPartySchemes, mainScheme,
                 identityDiff, doctorReport, nEdits, call, availableSchemes>>

onRunLaneResolved(p, result) ==
  /\ log' = laneReport(p.lane, result)
  /\ Settle(p, "resolved", result)
  /\ UNCHANGED <<config, scanResult, hideThirdPartySchemes, mainScheme,
                 identityDiff, doctorReport, nEdits, call, availableSchemes>>

onRunLaneRejected(p, error) ==
  /\ log' = Message("Lane run failed: ", <<>>, error)
  /\ Settle(p, "rejected", error)
  /\ UNCHANGED <<config, scanResult, hideThirdPartySchemes, mainScheme,
                 identityDiff, doctorReport, nEdits, call, availableSchemes>>

\* the lane buttons that get clicked
LanesClicked == {"dev", "release_appstore"}

RunLane ==
  \E i \in 1..Len(laneButtons) :
    laneButtons[i] \in LanesClicked /\ onRunLane(laneButtons[i])

LaneResolve ==
  \E p \in pending : p.op = "lane" /\
    \E result \in LaneRunResults : onRunLaneResolved(p, result)

LaneReject ==
  \E p \in pending : p.op = "lane" /\
    \E error \in Errors : onRunLaneRejected(p, error)

onDoctorCheck ==
  /\ ~busy
  /\ Start("doctor", "")
  /\ UNCHANGED <<config, scanResult, log, hideThirdPartySchemes, mainScheme,
                 identityDiff, doctorReport, nEdits, call, settled, availableSchemes>>

onDoctorCheckResolved(p, report) ==
  LET passCount == Cardinality({i \in 1..Len(report.checks) :
                                  report.checks[i].status = "pass"})
  IN  /\ doctorReport' = Some(report)
      /\ log' = [Message("Doctor completed: n/m checks passed.", <<>>, "")
                   EXCEPT !.nums = <<passCount, Len(report.checks)>>]
      /\ Settle(p, "resolved", report)
      /\ UNCHANGED <<config, scanResult, hideThirdPartySchemes, mainScheme,
                     identityDiff, nEdits, call, availableSchemes>>

onDoctorCheckRejected(p, error) ==
  /\ log' = Message("Doctor failed: ", <<>>, error)
  /\ Settle(p, "rejected", error)
  /\ UNCHANGED <<config, scanResult, hideThirdPartySchemes, mainScheme,
                 identityDiff, doctorReport, nEdits, call, availableSchemes>>

DoctorResolve ==
  \E p \in pending : p.op = "doctor" /\
    \E report \in DoctorReports : onDoctorCheckResolved(p, report)

DoctorReject ==
  \E p \in pending : p.op = "doctor" /\
    \E error \in Errors : onDoctorCheckRejected(p, error)

-----------------------------------------------------------------------------
(* Form controls: none of them is disabled while busy *)

\* text the user types into an <input>, per field; the inputs left out
\* (xcodeproj, bundleIdDis, matchGitBranch, pgyerApiKey,
\* appStoreConnectApiKeyPath) have the same onChange handler
TextInputs ==
  [ projectPath |-> {pBlank, pA, pB},
    workspace |-> {"User.xcworkspace"},
    bundleIdDev |-> {"com.user.dev"},
    teamId |-> {"USERTEAM01"},
    matchGitUrl |-> {"git@host:certs.git"},
    metadataPath |-> {"meta"} ]

\* an onChange handler: patch(key, e.target.value)
onChange(key, value) ==
  /\ value # config[key]
  /\ config' = patch(config, key, value)
  /\ nEdits' = nEdits + 1
  /\ UNCHANGED <<scanResult, log, busy, hideThirdPartySchemes, mainScheme,
                 identityDiff, doctorReport, pending, nOps, call, settled, availableSchemes>>

EditText ==
  /\ nEdits < MaxEdits
  /\ \E key \in DOMAIN TextInputs : \E value \in TextInputs[key] : onChange(key, value)

\* the Project Path input alone
EditProjectPath ==
  /\ nEdits < MaxEdits
  /\ \E value \in TextInputs.projectPath : onChange("projectPath", value)

\* Scheme Dev / Scheme Dis: a <select> over availableSchemes, else an <input>
EditScheme ==
  /\ nEdits < MaxEdits
  /\ \E key \in {"schemeDev", "schemeDis"} :
    \E value \in (IF Len(availableSchemes) > 0
                  THEN {availableSchemes[i] : i \in 1..Len(availableSchemes)}
                  ELSE {nWidget}) :
      onChange(key, value)

EditSigningStyle ==
  /\ nEdits < MaxEdits
  /\ \E value \in {"automatic", "manual"} : onChange("signingStyle", value)

\* the checkboxes that get clicked, one checked and one unchecked by default
EditCheckbox ==
  /\ nEdits < MaxEdits
  /\ \E key \in {"enableTests", "enableSnapshot"} :
    onChange(key, ~config[key])

\* the "Hide third-party schemes" checkbox
ToggleHideThirdParty ==
  /\ nEdits < MaxEdits
  /\ hideThirdPartySchemes' = ~hideThirdPartySchemes
  /\ availableSchemes' = availableSchemesOf(scanResult, ~hideThirdPartySchemes)
  /\ nEdits' = nEdits + 1
  /\ UNCHANGED <<config, scanResult, log, busy, mainScheme, identityDiff,
                 doctorReport, pending, nOps, call, settled>>

\* the Main Scheme <select>
SelectMainScheme ==
  LET options == IF Len(availableSchemes) > 0 THEN availableSchemes
                 ELSE IF scanResult # undefined THEN scanResult[1].schemes
                 ELSE <<>>
  IN  /\ nEdits < MaxEdits
      /\ \E i \in 1..Len(options) :
        /\ options[i] # mainScheme
        /\ mainScheme' = options[i]
        /\ nEdits' = nEdits + 1
        /\ UNCHANGED <<config, scanResult, log, busy, hideThirdPartySchemes,
                       identityDiff, doctorReport, pending, nOps, call, settled, availableSchemes>>

Next ==
  \/ onScan \/ ScanResolve \/ ScanReject
  \/ onApplyIdentity \/ IdentityResolve \/ IdentityReject
  \/ onLockMainScheme
  \/ onBrowseProjectPath \/ BrowseResolve \/ BrowseReject
  \/ onGenerate \/ GenerateResolve \/ GenerateReject
  \/ onSaveProfile \/ SaveResolve \/ SaveReject
  \/ onLoadProfile \/ LoadResolve \/ LoadReject
  \/ RunLane \/ LaneResolve \/ LaneReject
  \/ onDoctorCheck \/ DoctorResolve \/ DoctorReject
  \/ EditText \/ EditScheme \/ EditSigningStyle \/ EditCheckbox
  \/ ToggleHideThirdParty \/ SelectMainScheme

Spec == Init /\ [][Next]_vars

\* the continuation of a backend call: the promise resolved or rejected
Settlement ==
  \/ ScanResolve \/ ScanReject
  \/ IdentityResolve \/ IdentityReject
  \/ BrowseResolve \/ BrowseReject
  \/ GenerateResolve \/ GenerateReject
  \/ SaveResolve \/ SaveReject
  \/ LoadResolve \/ LoadReject
  \/ LaneResolve \/ LaneReject
  \/ DoctorResolve \/ DoctorReject

\* the handlers of the buttons
Clicks ==
  \/ onScan \/ onApplyIdentity \/ onLockMainScheme \/ onBrowseProjectPath
  \/ onGenerate \/ onSaveProfile \/ onLoadProfile \/ RunLane \/ onDoctorCheck

\* the buttons, the project path and the continuations
NextHandlers == Clicks \/ Settlement \/ EditProjectPath

\* every backend call settles, and the event loop then runs its continuation
SpecFair == Init /\ [][NextHandlers]_vars /\ WF_vars(Settlement)

-----------------------------------------------------------------------------
(* The classifier functions applied to every input within the bounds *)

ApplyPickSuggestedSchemes ==
  /\ call = NoCall
  /\ \E schemes \in SchemeLists :
    /\ call' = [NoCall EXCEPT !.fn = "pickSuggestedSchemes", !.schemes = schemes,
                              !.pair = pickSuggestedSchemes(schemes)]
    /\ UNCHANGED appVars

ApplyIsThirdPartyScheme ==
  /\ call = NoCall
  /\ \E scheme \in ClassifierNames, projectName \in ProjectNames :
    /\ call' = [NoCall EXCEPT !.fn = "isThirdPartyScheme", !.scheme = scheme,
                              !.projectName = projectName,
                              !.flag = isThirdPartyScheme(scheme, projectName)]
    /\ UNCHANGED appVars

ApplySuggestMainScheme ==
  /\ call = NoCall
  /\ \E schemes \in SchemeLists, projectName \in ProjectNames :
    /\ call' = [NoCall EXCEPT !.fn = "suggestMainScheme", !.schemes = schemes,
                              !.projectName = projectName,
                              !.str = suggestMainScheme(schemes, projectName)]
    /\ UNCHANGED appVars

ClassifierNext ==
  \/ ApplyPickSuggestedSchemes
  \/ ApplyIsThirdPartyScheme
  \/ ApplySuggestMainScheme

SpecClassifier == Init /\ [][ClassifierNext]_vars

-----------------------------------------------------------------------------
(* Properties of the scheme classifier, checked under SpecClassifier *)

Elements(seq) == {seq[i] : i \in 1..Len(seq)}

\* the words of the claims, letter by letter
WordsDev == {<<"d", "e", "v">>, <<"d", "e", "b", "u", "g">>,
             <<"s", "t", "a", "g", "i", "n", "g">>}

WordsDis == {<<"p", "r", "o", "d">>, <<"r", "e", "l", "e", "a", "s", "e">>,
             <<"a", "p", "p", "s", "t", "o", "r", "e">>}

WordPods == <<"p", "o", "d", "s", "-">>

WordPrivacy == <<"p", "r", "i", "v", "a", "c", "y">>

WordsDenylist ==
  { <<"k", "i", "n", "g", "f", "i", "s", "h", "e", "r">>,
    <<"s", "n", "a", "p", "k", "i", "t">>,
    <<"s", "w", "i", "f", "t", "y", "j", "s", "o", "n">>,
    <<"a", "d", "j", "u", "s", "t">>,
    <<"g", "r", "d", "b">>,
    <<"m", "b", "p", "r", "o", "g", "r", "e", "s", "s", "h", "u", "d">>,
    <<"m", "j", "r", "e", "f", "r", "e", "s", "h">>,
    <<"t", "h", "i", "n", "k", "i", "n", "g">>,
    <<"j", "x", "p", "a", "g", "i", "n", "g">>,
    <<"j", "x", "s", "e", "g", "m", "e", "n", "t", "e", "d">>,
    <<"j", "x", "p", "h", "o", "t", "o">> }

SameLetter(a, b) == toLowerChar(a) = toLowerChar(b)

\* s, read from position at, spells w when case is ignored
SpellsAt(s, at, w) ==
  /\ at + Len(w) - 1 <= Len(s)
  /\ \A j \in 1..Len(w) : SameLetter(s[at + j - 1], w[j])

ContainsIgnoringCase(s, w) == \E at \in 1..(Len(s) + 1) : SpellsAt(s, at, w)

EqualIgnoringCase(s, w) == Len(s) = Len(w) /\ SpellsAt(s, 1, w)

StartsIgnoringCase(s, w) == SpellsAt(s, 1, w)

ContainsAny(s, words) == \E w \in words : ContainsIgnoringCase(s, w)

\* x is the first element of seq with property P, where hits are the
\* positions of the elements with property P
IsFirstOf(x, seq, hits) ==
  \E i \in hits : seq[i] = x /\ \A j \in hits : i <= j

\* C1: for a non-empty scheme list dev and dis of pickSuggestedSchemes are
\* elements of the list; for a one-element list both are that element; for
\* the empty list both are the empty string.
C1_PairWithinList ==
  call.fn = "pickSuggestedSchemes" =>
    /\ Len(call.schemes) > 0 =>
         call.pair.dev \in Elements(call.schemes) /\ call.pair.dis \in Elements(call.schemes)
    /\ Len(call.schemes) = 1 =>
         call.pair.dev = call.schemes[1] /\ call.pair.dis = call.schemes[1]
    /\ Len(call.schemes) = 0 => call.pair.dev = <<>> /\ call.pair.dis = <<>>

\* a one-element list whose only scheme matches neither pattern
C1_Witness ==
  /\ call.fn = "pickSuggestedSchemes"
  /\ call.schemes = <<nWidget>>
  /\ call.pair = [dev |-> nWidget, dis |-> nWidget]

\* C2: for a non-empty list, dev is the first scheme containing "dev",
\* "debug" or "staging" (case ignored), else the first scheme; dis is the
\* first scheme containing "prod", "release" or "appstore" (case ignored),
\* else the first scheme different from dev, else dev itself.
C2_PairAsSpecified ==
  (call.fn = "pickSuggestedSchemes" /\ Len(call.schemes) > 0) =>
    LET schemes == call.schemes
        dev == call.pair.dev
        dis == call.pair.dis
        devHits == {i \in 1..Len(schemes) : ContainsAny(schemes[i], WordsDev)}
        disHits == {i \in 1..Len(schemes) : ContainsAny(schemes[i], WordsDis)}
        others == {i \in 1..Len(schemes) : schemes[i] # dev}
    IN  /\ IF devHits # {} THEN IsFirstOf(dev, schemes, devHits)
           ELSE dev = schemes[1]
        /\ IF disHits # {} THEN IsFirstOf(dis, schemes, disHits)
           ELSE IF others # {} THEN IsFirstOf(dis, schemes, others)
           ELSE dis = dev

\* dev found by pattern behind a non-matching first scheme, dis found as the
\* first scheme different from dev
C2_Witness ==
  /\ call.fn = "pickSuggestedSchemes"
  /\ call.schemes = <<nWidget, nMyAppDEBUG, nMyApp>>
  /\ call.pair = [dev |-> nMyAppDEBUG, dis |-> nWidget]

\* what C3 says isThirdPartyScheme returns for a scheme name
DenylistedName(scheme) ==
  \/ StartsIgnoringCase(scheme, WordPods)
  \/ ContainsIgnoringCase(scheme, WordPrivacy)
  \/ ContainsAny(scheme, WordsDenylist)

\* C3: isThirdPartyScheme is true exactly when the lower-cased name starts
\* with "pods-", contains "privacy" or contains a denylist fragment, whatever
\* the projectName argument is.
C3_ThirdPartyExactly ==
  call.fn = "isThirdPartyScheme" => (call.flag <=> DenylistedName(call.scheme))

\* a denylisted scheme that is also the project name is third-party
C3_Witness ==
  /\ call.fn = "isThirdPartyScheme"
  /\ call.scheme = nKingfisher
  /\ call.projectName = Some(nKingfisher)
  /\ call.flag

\* C4 as stated: a scheme whose name equals the project name is never
\* classified third-party.
C4_ProjectNameNeverThirdParty ==
  (call.fn = "isThirdPartyScheme" /\ call.projectName = Some(call.scheme)) => ~call.flag

\* C4 amended: a scheme whose name equals the project name is not classified
\* third-party unless the name itself starts with "pods-", contains "privacy"
\* or contains a denylist fragment.
C4_ProjectNameUnlessDenylisted ==
  (/\ call.fn = "isThirdPartyScheme"
   /\ call.projectName = Some(call.scheme)
   /\ ~DenylistedName(call.scheme)) => ~call.flag

C4_Witness ==
  /\ call.fn = "isThirdPartyScheme"
  /\ call.scheme = nMyApp
  /\ call.projectName = Some(nMyApp)
  /\ ~call.flag

\* C6: suggestMainScheme returns the first scheme equal to projectName when
\* case is ignored, else the first scheme containing projectName when case
\* is ignored, else the first scheme, else the empty string; the result is
\* an element of the list or empty.
C6_MainSchemeAsSpecified ==
  call.fn = "suggestMainScheme" =>
    LET schemes == call.schemes
        pname == Nullish(call.projectName, <<>>)
        exactHits == {i \in 1..Len(schemes) : EqualIgnoringCase(schemes[i], pname)}
        containHits == {i \in 1..Len(schemes) : ContainsIgnoringCase(schemes[i], pname)}
    IN  /\ IF exactHits # {} THEN IsFirstOf(call.str, schemes, exactHits)
           ELSE IF containHits # {} THEN IsFirstOf(call.str, schemes, containHits)
           ELSE IF Len(schemes) > 0 THEN call.str = schemes[1]
           ELSE call.str = <<>>
        /\ call.str \in Elements(schemes) \cup {<<>>}

\* the exact match wins over an earlier scheme that only contains the name
C6_Witness ==
  /\ call.fn = "suggestMainScheme"
  /\ call.schemes = <<nMyAppDev, nWidget, nMYAPP>>
  /\ call.projectName = Some(nMyApp)
  /\ call.str = nMYAPP

-----------------------------------------------------------------------------
(* Properties of the component, checked under Spec *)

\* the step is the settlement of a backend call
Settles == pending' # pending /\ pending' \subseteq pending

\* the step starts a backend call
Starts == pending' \ pending # {}

\* C5: whenever the current scanResult has a non-empty schemes list,
\* availableSchemes is non-empty; with hiding enabled it is the schemes not
\* classified third-party, in scan order, unless there is none, and then the
\* full list; with hiding disabled it is the full list.
C5_FallbackLaw ==
  (scanResult # undefined /\ Len(scanResult[1].schemes) > 0) =>
    LET schemes == scanResult[1].schemes
        notThirdParty(s) == ~isThirdPartyScheme(s, Some(scanResult[1].projectName))
        kept == SelectSeq(schemes, notThirdParty)
    IN  /\ Len(availableSchemes) > 0
        /\ hideThirdPartySchemes =>
             availableSchemes = IF kept = <<>> THEN schemes ELSE kept
        /\ ~hideThirdPartySchemes => availableSchemes = schemes

\* hiding is on and every scanned scheme is third-party: the full list is offered
C5_Witness ==
  /\ scanResult # undefined
  /\ hideThirdPartySchemes
  /\ scanResult[1].schemes = <<nKingfisher, nPodsMyApp>>
  /\ availableSchemes = <<nKingfisher, nPodsMyApp>>

\* C7: when a scan, resolve-identity, generate, save-profile or load-profile
\* call rejects, the handler changes only the log message and the busy flag;
\* config, scanResult, mainScheme and identityDiff stay as they were.
C7_RejectionLeavesState ==
  [][(/\ Settles
      /\ settled'.outcome = "rejected"
      /\ settled'.op \in {"scan", "identity", "generate", "save", "load"})
     => /\ config' = config
        /\ scanResult' = scanResult
        /\ mainScheme' = mainScheme
        /\ identityDiff' = identityDiff
        /\ hideThirdPartySchemes' = hideThirdPartySchemes
        /\ doctorReport' = doctorReport
        /\ ~busy']_vars

\* a scan failed after an earlier scan had filled the state
C7_Witness ==
  /\ settled.op = "scan"
  /\ settled.outcome = "rejected"
  /\ log.text = "Scan failed: "
  /\ scanResult # undefined
  /\ mainScheme # <<>>
  /\ config.schemeDev # <<>>

\* C8: a lane call that resolves, also with status failed and a non-zero
\* exit code, is reported as "[status] lane (exit=code)" with the captured
\* output; only a lane call that rejects gives "Lane run failed", and that
\* message carries no status and no exit code.
C8_RanAndFailedDistinct ==
  [][(Settles /\ settled'.op = "lane")
     => IF settled'.outcome = "resolved"
        THEN log' = [text |-> "[status] lane (exit=code)",
                     name |-> <<>>,
                     detail |-> settled'.value.output,
                     status |-> settled'.value.status,
                     lane |-> settled'.lane,
                     nums |-> <<settled'.value.exitCode>>]
        ELSE /\ log'.text = "Lane run failed: "
             /\ log'.status = ""
             /\ log'.nums = <<>>]_vars

\* the lane ran and failed with exit code 2, reported on the success path
C8_Witness ==
  /\ settled.op = "lane"
  /\ settled.outcome = "resolved"
  /\ settled.value.status = "failed"
  /\ log.text = "[status] lane (exit=code)"
  /\ log.status = "failed"
  /\ log.nums = <<2>>

\* C9: at most one backend call is in flight; busy is true while a call has
\* not settled; a call starts only while busy is false.
C9_OneInFlight ==
  /\ [](Cardinality(pending) <= 1 /\ (pending # {} => busy))
  /\ [][Starts => ~busy]_vars

\* a second call in flight after the first one has settled
C9_Witness ==
  /\ busy
  /\ Cardinality(pending) = 1
  /\ settled.op # "none"
  /\ nOps = 2

\* C10 as stated: while a backend call is in flight no other action changes
\* a ProjectConfig field, so a scan result is merged into a config whose
\* projectPath is the path that was scanned.
C10_NoConcurrentMutation ==
  [][/\ (pending # {} /\ pending' = pending) => config' = config
     /\ \A p \in pending \ pending' :
          (p.op = "scan" /\ settled'.outcome = "resolved")
            => config'.projectPath = p.snap.projectPath]_vars

\* the fields a step changes
ChangedFields == {k \in DOMAIN config : config'[k] # config[k]}

\* the fields the handler of a backend call patches when the call resolves
PatchedBy(op) ==
  CASE op = "scan" -> {"workspace", "xcodeproj", "schemeDev", "schemeDis",
                       "bundleIdDev", "bundleIdDis", "teamId"}
    [] op = "identity" -> {"bundleIdDev", "bundleIdDis", "teamId"}
    [] op = "browse" -> {"projectPath"}
    [] OTHER -> {}

\* C11 as stated: every change to ProjectConfig overwrites named fields one
\* by one: no field is removed, a settled call changes only the fields its
\* handler patches, a click or an edit changes one field (the two scheme
\* fields for the lock button), and nothing replaces the object as a whole.
C11_FieldByFieldOnly ==
  [][/\ DOMAIN config' = DOMAIN config
     /\ Settles => ChangedFields \subseteq PatchedBy(settled'.op)
     /\ ~Settles => \/ Cardinality(ChangedFields) <= 1
                    \/ ChangedFields \subseteq {"schemeDev", "schemeDis"}]_vars

\* the empty value of a ProjectConfig field
EmptyField(k) == IF k \in {"schemeDev", "schemeDis"} THEN <<>> ELSE ""

\* the scan result carries no value for field k
CarriesNone(result, k) ==
  IF k \in {"schemeDev", "schemeDis"} THEN result.schemes = <<>>
  ELSE result[k] = undefined

\* C12 as stated: a successful scan never resets a non-empty workspace,
\* xcodeproj, schemeDev, schemeDis, bundleIdDev, bundleIdDis or teamId to
\* the empty string when the result carries no value for it, and it leaves
\* every other field unchanged.
C12_ScanKeepsOverrides ==
  [][(Settles /\ settled'.op = "scan" /\ settled'.outcome = "resolved")
     => /\ \A k \in PatchedBy("scan") :
             (config[k] # EmptyField(k) /\ CarriesNone(settled'.value, k))
               => config'[k] # EmptyField(k)
        /\ \A k \in DOMAIN config \ PatchedBy("scan") :
             config'[k] = config[k]]_vars

\* C13 as stated: no scan, resolve-identity, generate, save-profile,
\* load-profile or run-lane call is in flight that was issued while
\* config.projectPath was empty or whitespace-only.
C13_ProjectPathRequired ==
  \A p \in pending :
    p.op \in {"scan", "identity", "generate", "save", "load", "lane"}
      => trim(p.snap.projectPath) # <<>>

\* the 18 fields of ProjectConfig
ConfigFields ==
  {"projectPath", "workspace", "xcodeproj", "schemeDev", "schemeDis",
   "bundleIdDev", "bundleIdDis", "teamId", "signingStyle", "matchGitUrl",
   "matchGitBranch", "pgyerApiKey", "appStoreConnectApiKeyPath",
   "enableQualityGate", "enableTests", "enableSwiftlint", "enableSnapshot",
   "metadataPath"}

\* the string fields whose default is the empty string
PlainStringFields ==
  {"projectPath", "workspace", "xcodeproj", "schemeDev", "schemeDis",
   "bundleIdDev", "bundleIdDis", "teamId", "matchGitUrl", "pgyerApiKey",
   "appStoreConnectApiKeyPath"}

\* the component has been constructed and nothing has been done to it yet
JustConstructed ==
  /\ nOps = 0
  /\ nEdits = 0
  /\ log.text = "Ready. Fill project path and click Scan."

\* the defaults the claim documents, common to the claim and its amendment
DocumentedDefaults ==
  /\ DOMAIN config = ConfigFields
  /\ \A k \in PlainStringFields : config[k] = EmptyField(k)
  /\ config.matchGitBranch = "main"
  /\ config.metadataPath = "fastlane/metadata"
  /\ config.signingStyle \in {"automatic", "manual"}

\* C14 as stated: the initial ProjectConfig has all 18 fields, every string
\* empty and every one of the four toggles false, except matchGitBranch,
\* metadataPath and signingStyle.
C14_AllDefaultsEmptyOrFalse ==
  JustConstructed =>
    /\ DocumentedDefaults
    /\ \A k \in {"enableQualityGate", "enableTests", "enableSwiftlint",
                  "enableSnapshot"} : config[k] = FALSE

\* C14, amended: the initial ProjectConfig has all 18 fields, every string
\* empty except matchGitBranch, metadataPath and signingStyle, enableSwiftlint
\* and enableSnapshot false, and enableQualityGate and enableTests true.
C14_DefaultsAsCoded ==
  JustConstructed =>
    /\ DocumentedDefaults
    /\ config.enableSwiftlint = FALSE
    /\ config.enableSnapshot = FALSE
    /\ config.enableQualityGate = TRUE
    /\ config.enableTests = TRUE

\* the freshly constructed component, with the quality gate switched on
C14_Witness ==
  /\ JustConstructed
  /\ config.enableQualityGate
  /\ config.matchGitBranch = "main"
  /\ scanResult = undefined

\* C15 as stated: after a successful resolve-identity, identityDiff has an
\* entry for bundleIdDev, bundleIdDis or teamId exactly when the value of
\* that field after the apply differs from its value when the operation was
\* invoked.
C15_DiffIsExact ==
  [][(Settles /\ settled'.op = "identity" /\ settled'.outcome = "resolved")
     => \A p \in pending \ pending' :
          \A k \in {"bundleIdDev", "bundleIdDis", "teamId"} :
            (\E i \in 1..Len(identityDiff') : identityDiff'[i][1] = k)
              <=> config'[k] # p.snap[k]]_vars

\* C16 as stated: after a successful scan that finds at least one scheme,
\* with "hide third-party schemes" enabled, the values seeded into
\* config.schemeDev, config.schemeDis and mainScheme are members of
\* availableSchemes.
C16_SuggestionsAreOffered ==
  [][(/\ Settles
      /\ settled'.op = "scan"
      /\ settled'.outcome = "resolved"
      /\ Len(settled'.value.schemes) > 0
      /\ hideThirdPartySchemes')
     => /\ config'.schemeDev \in Elements(availableSchemes')
        /\ config'.schemeDis \in Elements(availableSchemes')
        /\ mainScheme' \in Elements(availableSchemes')]_vars

\* C17: the step in which a backend call settles, resolved or rejected, sets
\* busy to false; a step that starts no backend call (an early return among
\* them) never sets busy to true; busy is true only while a call has not
\* settled; and, every call settling, busy always becomes false again.
C17_BusyReleased ==
  /\ [][Settles => ~busy']_vars
  /\ [][(~Starts /\ ~busy) => ~busy']_vars
  /\ [](busy => pending # {})
  /\ (busy ~> ~busy)

\* a call was rejected and busy is false again, after an early return
C17_Witness ==
  /\ settled.outcome = "rejected"
  /\ ~busy
  /\ pending = {}
  /\ nOps >= 1

====
